---- MODULE Spec2Model ----
(***************************************************************************)
(* A model of parse_whatsapp.parse_chat and its helpers.                   *)
(*                                                                         *)
(* A Python str is a sequence of one-character strings, so that matching,  *)
(* stripping, splitting and formatting are computed character by           *)
(* character.  The narrow no-break space U+202F is the character "NNBSP".  *)
(* A raised ValueError is the one-element sequence ValueError.             *)
(***************************************************************************)
EXTENDS Integers, Sequences, FiniteSets, TLC

VARIABLES
    lines,        \* the chat file's lines, each without its trailing "\n"
    disk,         \* names of the regular files in the extraction directory
    pc,           \* position in parse_chat (or in a helper under test); the
                  \* name of the exception once one has propagated
    idx,          \* index of the next line / next message to process
    messages,     \* List[Dict]: the sealed messages
    current_msg,  \* Optional[Dict]: <<>> is None, <<m>> is the open message
    ocr_log,      \* one entry per call of _perform_ocr
    df,           \* the DataFrame's rows
    json_file,    \* chat_data.json: <<>> is absent, <<c>> holds content c
    excel_file,   \* chat_data.xlsx: <<>> is absent, <<c>> holds content c
    fn_in,        \* argument of the helper under test
    fn_out        \* its return value

vars == <<lines, disk, pc, idx, messages, current_msg, ocr_log, df,
          json_file, excel_file, fn_in, fn_out>>

----------------------------------------------------------------------------
(* Characters and the str methods the code uses. *)

Digits == <<"0", "1", "2", "3", "4", "5", "6", "7", "8", "9">>

UpperCase == <<"A", "B", "C", "D", "E", "F", "G", "H", "I", "J", "K", "L", "M", "N", "O", "P", "Q", "R", "S", "T", "U", "V", "W", "X", "Y", "Z">>

LowerCase == <<"a", "b", "c", "d", "e", "f", "g", "h", "i", "j", "k", "l", "m", "n", "o", "p", "q", "r", "s", "t", "u", "v", "w", "x", "y", "z">>

SeqToSet(s) == {s[i] : i \in 1..Len(s)}

DigitSet == SeqToSet(Digits)

UpperSet == SeqToSet(UpperCase)

LowerSet == SeqToSet(LowerCase)

IsDigit(c) == c \in DigitSet

DigitVal(c) == CHOOSE n \in 0..9 : Digits[n + 1] = c

\* str.isspace / the regex class \s, over the characters of the model.
IsSpace(c) == c \in {" ", "\t", "\n", "NNBSP"}

\* str.lower on one character.
LowerChar(c) ==
    IF c \in UpperSet
    THEN LowerCase[CHOOSE i \in 1..26 : UpperCase[i] = c]
    ELSE c

\* str.upper on one character.
UpperChar(c) ==
    IF c \in LowerSet
    THEN UpperCase[CHOOSE i \in 1..26 : LowerCase[i] = c]
    ELSE c

Lower(s) == [i \in 1..Len(s) |-> LowerChar(s[i])]

Upper(s) == [i \in 1..Len(s) |-> UpperChar(s[i])]

RECURSIVE LStrip(_)
LStrip(s) == IF s # <<>> /\ IsSpace(Head(s)) THEN LStrip(Tail(s)) ELSE s

RECURSIVE RStrip(_)
RStrip(s) ==
    IF s # <<>> /\ IsSpace(s[Len(s)]) THEN RStrip(SubSeq(s, 1, Len(s) - 1)) ELSE s

\* str.strip()
Strip(s) == RStrip(LStrip(s))

\* str.lstrip('-')
RECURSIVE LStripHyphens(_)
LStripHyphens(s) ==
    IF s # <<>> /\ Head(s) = "-" THEN LStripHyphens(Tail(s)) ELSE s

\* Index of the first occurrence of character c in s at or after from; 0 if none.
RECURSIVE Find(_, _, _)
Find(s, c, from) ==
    IF from > Len(s) THEN 0
    ELSE IF s[from] = c THEN from
    ELSE Find(s, c, from + 1)

\* s.startswith(p, at - 1): p occurs in s at index at.
StartsWithAt(s, p, at) ==
    /\ at + Len(p) - 1 <= Len(s)
    /\ \A i \in 1..Len(p) : s[at + i - 1] = p[i]

\* p in s
Contains(s, p) == \E at \in 1..(Len(s) + 1) : StartsWithAt(s, p, at)

\* s.endswith(p)
EndsWith(s, p) == Len(p) <= Len(s) /\ StartsWithAt(s, p, Len(s) - Len(p) + 1)

\* sep.join(parts)
RECURSIVE Join(_, _)
Join(sep, parts) ==
    IF parts = <<>> THEN <<>>
    ELSE IF Len(parts) = 1 THEN parts[1]
    ELSE parts[1] \o sep \o Join(sep, Tail(parts))

\* s.split(c) for a one-character separator.
RECURSIVE Split(_, _)
RECURSIVE SplitAt(_, _, _)
Split(s, c) == SplitAt(s, c, Find(s, c, 1))

SplitAt(s, c, i) ==
    IF i = 0 THEN <<s>>
    ELSE <<SubSeq(s, 1, i - 1)>> \o Split(SubSeq(s, i + 1, Len(s)), c)

\* What a helper yields where the code raises ValueError.
ValueError == <<"ValueError">>

\* int(s) for a string of one or two digits.
IntOf(s) ==
    IF Len(s) = 1 THEN DigitVal(s[1]) ELSE 10 * DigitVal(s[1]) + DigitVal(s[2])

AllDigits(s) == \A i \in 1..Len(s) : IsDigit(s[i])

\* "%02d" % n and "%04d" % n
Pad2(n) == <<Digits[(n \div 10) + 1], Digits[(n % 10) + 1]>>

Pad4(n) == Pad2(n \div 100) \o Pad2(n % 100)

----------------------------------------------------------------------------
(* datetime.strptime / strftime as _convert_date and _convert_time use them. *)

IsLeap(y) == y % 4 = 0 /\ (y % 100 # 0 \/ y % 400 = 0)

DaysInMonth(y, m) ==
    IF m = 2 THEN (IF IsLeap(y) THEN 29 ELSE 28)
    ELSE IF m \in {4, 6, 9, 11} THEN 30 ELSE 31

\* The directive %y: two digits; values 69..99 are 1969..1999 and 0..68 are
\* 2000..2068 (the POSIX pivot that strptime applies).
YearOf2Digits(yy) == IF yy <= 68 THEN 2000 + yy ELSE 1900 + yy

\* What a failed strptime yields in place of a datetime.
Unparsed == [ok |-> FALSE]

\* datetime.strptime(date_str, "%m/%d/%y") when monthFirst, and
\* datetime.strptime(date_str, "%d/%m/%y") otherwise: the record of the date,
\* or Unparsed where strptime raises ValueError.  %m takes 1[0-2]|0[1-9]|[1-9], %d takes
\* 3[01]|[12]\d|0[1-9]|[1-9], %y takes \d\d, and the whole string must be
\* consumed; the day must exist in the month.
MakeDate(y, m, d) ==
    IF m \in 1..12 /\ d \in 1..31 /\ d <= DaysInMonth(y, m)
    THEN [ok |-> TRUE, year |-> y, month |-> m, day |-> d]
    ELSE Unparsed

DateOfParts(parts, monthFirst) ==
    IF \/ Len(parts) # 3
       \/ \E i \in 1..3 : ~AllDigits(parts[i])
       \/ Len(parts[1]) \notin {1, 2}
       \/ Len(parts[2]) \notin {1, 2}
       \/ Len(parts[3]) # 2
    THEN Unparsed
    ELSE MakeDate(YearOf2Digits(IntOf(parts[3])),
                  IntOf(IF monthFirst THEN parts[1] ELSE parts[2]),
                  IntOf(IF monthFirst THEN parts[2] ELSE parts[1]))

strptime_date(date_str, monthFirst) == DateOfParts(Split(date_str, "/"), monthFirst)

\* dt.strftime("%Y-%m-%d")
strftime_date(dt) == Pad4(dt.year) \o <<"-">> \o Pad2(dt.month) \o <<"-">> \o Pad2(dt.day)

\* The except branch: the fallback to "%d/%m/%y".
DayFirst(dt) == IF dt.ok THEN strftime_date(dt) ELSE ValueError

\* The try branch, given what strptime(date_str, "%m/%d/%y") yields.
MonthFirst(date_str, dt) ==
    IF dt.ok THEN strftime_date(dt) ELSE DayFirst(strptime_date(date_str, FALSE))

_convert_date(date_str) == MonthFirst(date_str, strptime_date(date_str, TRUE))

\* time_str.replace(" ", " ")
ReplaceNNBSP(s) == [i \in 1..Len(s) |-> IF s[i] = "NNBSP" THEN " " ELSE s[i]]

\* datetime.strptime(cleaned, "%I:%M %p"): %I takes 1[0-2]|0[1-9]|[1-9], %M
\* takes [0-5]\d|\d, the blank of the format takes \s+, %p takes AM or PM
\* (case-insensitively), and the whole string must be consumed.
\* The length of the minute at the head of rest: two digits [0-5]\d, or
\* else one digit.
MinuteLen(rest) ==
    IF Len(rest) >= 2 /\ IsDigit(rest[1]) /\ IsDigit(rest[2]) /\ DigitVal(rest[1]) <= 5
    THEN 2
    ELSE IF Len(rest) >= 1 /\ IsDigit(rest[1]) THEN 1 ELSE 0

\* The 24-hour time of hour h12 of the 12-hour clock.
MakeTime(h12, minute, pm) ==
    [ok     |-> TRUE,
     hour   |-> IF pm THEN (IF h12 = 12 THEN 12 ELSE h12 + 12)
                ELSE (IF h12 = 12 THEN 0 ELSE h12),
     minute |-> minute]

\* hh is what precedes the colon, mm the minute, tail what follows the
\* minute, ap the tail without its leading blanks.
TimeOfParts(hh, mm, tail, ap) ==
    IF \/ Len(hh) \notin {1, 2} \/ ~AllDigits(hh) \/ IntOf(hh) \notin 1..12
       \/ mm = <<>>
       \/ Len(ap) = Len(tail)                \* \s+ needs at least one blank
       \/ ap \notin {<<"A", "M">>, <<"P", "M">>, <<"a", "m">>, <<"p", "m">>, <<"A", "m">>, <<"a", "M">>, <<"P", "m">>, <<"p", "M">>}
    THEN Unparsed
    ELSE MakeTime(IntOf(hh), IntOf(mm), LowerChar(ap[1]) = "p")

TimeAfterColon(hh, rest, mlen) ==
    TimeOfParts(hh, SubSeq(rest, 1, mlen), SubSeq(rest, mlen + 1, Len(rest)),
                LStrip(SubSeq(rest, mlen + 1, Len(rest))))

TimeAtColon(cleaned, c) ==
    IF c = 0 THEN Unparsed
    ELSE TimeAfterColon(SubSeq(cleaned, 1, c - 1),
                        SubSeq(cleaned, c + 1, Len(cleaned)),
                        MinuteLen(SubSeq(cleaned, c + 1, Len(cleaned))))

strptime_time(cleaned) == TimeAtColon(cleaned, Find(cleaned, ":", 1))

strftime_time(dt) ==
    IF ~dt.ok THEN ValueError ELSE Pad2(dt.hour) \o <<":">> \o Pad2(dt.minute)

_convert_time(time_str) ==
    strftime_time(strptime_time(Upper(Strip(ReplaceNNBSP(time_str)))))

----------------------------------------------------------------------------
(* The two line patterns of parse_chat.  Every quantifier of the shared    *)
(* prefix is followed by a character outside its class, so the prefix      *)
(* matches in one way or not at all; a position of 0 means "no match".     *)

\* \d{1,2} at i: the position after it.
Dig12(s, i) ==
    IF i = 0 \/ i > Len(s) \/ ~IsDigit(s[i]) THEN 0
    ELSE IF i + 1 <= Len(s) /\ IsDigit(s[i + 1]) THEN i + 2 ELSE i + 1

\* \d{2} at i: the position after it.
Dig2(s, i) ==
    IF i = 0 \/ i + 1 > Len(s) \/ ~IsDigit(s[i]) \/ ~IsDigit(s[i + 1]) THEN 0
    ELSE i + 2

\* One character of the set at i: the position after it.
Ch(s, i, set) == IF i = 0 \/ i > Len(s) \/ s[i] \notin set THEN 0 ELSE i + 1

\* \s* at i (greedy): the position after the run of blanks.
RECURSIVE Sp0(_, _)
Sp0(s, i) ==
    IF i = 0 THEN 0
    ELSE IF i <= Len(s) /\ IsSpace(s[i]) THEN Sp0(s, i + 1)
    ELSE i

\* \s+ at i (greedy): the position after the run of blanks.
Sp1(s, i) == LET k == Sp0(s, i) IN IF k = i THEN 0 ELSE k

NoMatch == [ok |-> FALSE]

\* ^(\d{1,2}/\d{1,2}/\d{2}),\s+(\d{1,2}:\d{2}\s*[APap][Mm])\s+-\s+
\* dash is the position after the hyphen, body the position after the
\* blanks that follow it.
\* d3 is the position after the date, t0 and t3 the positions before and
\* after the time, dash the position after the hyphen.
PrefixGroups(line, d3, t0, t3, dash, body) ==
    IF body = 0 THEN NoMatch
    ELSE [ok   |-> TRUE,
          date |-> SubSeq(line, 1, d3 - 1),
          time |-> SubSeq(line, t0, t3 - 1),
          dash |-> dash,
          body |-> body]

PrefixDash(line, d3, t0, t3, dash) ==
    PrefixGroups(line, d3, t0, t3, dash, Sp1(line, dash))

PrefixTime(line, d3, t0, t3) ==
    PrefixDash(line, d3, t0, t3, Ch(line, Sp1(line, t3), {"-"}))

PrefixDate(line, d3, t0) ==
    PrefixTime(line, d3, t0,
               Ch(line,
                  Ch(line,
                     Sp0(line, Dig2(line, Ch(line, Dig12(line, t0), {":"}))),
                     {"A", "P", "a", "p"}),
                  {"M", "m"}))

PrefixStart(line, d3) == PrefixDate(line, d3, Sp1(line, Ch(line, d3, {","})))

HeaderPrefix(line) ==
    PrefixStart(line,
                Dig2(line, Ch(line, Dig12(line, Ch(line, Dig12(line, 1), {"/"})), {"/"})))

\* regular_re.match(line): the prefix, then ([^:]+?):\s*(.*)$
\* The blanks after the hyphen are taken greedily; when the first colon
\* follows them at once, the match gives one blank back to the sender group
\* if there are two or more, and fails otherwise.
\* h is the prefix's match, c the position of the first colon after the
\* hyphen (0 if none), from the position where the sender group starts.
RegularGroups(line, h, c, from) ==
    IF c = 0 \/ from <= h.dash THEN NoMatch
    ELSE [ok     |-> TRUE,
          date   |-> h.date,
          time   |-> h.time,
          sender |-> SubSeq(line, from, c - 1),
          text   |-> SubSeq(line, Sp0(line, c + 1), Len(line))]

RegularAtColon(line, h, c) ==
    RegularGroups(line, h, c, IF c > h.body THEN h.body ELSE h.body - 1)

RegularAfter(line, h) ==
    IF ~h.ok THEN NoMatch ELSE RegularAtColon(line, h, Find(line, ":", h.dash))

regular_re(line) == RegularAfter(line, HeaderPrefix(line))

SystemAfter(line, h) ==
    IF ~h.ok THEN NoMatch
    ELSE [ok   |-> TRUE,
          date |-> h.date,
          time |-> h.time,
          text |-> SubSeq(line, h.body, Len(line))]

\* system_re.match(line): the prefix, then (.*)$
system_re(line) == SystemAfter(line, HeaderPrefix(line))

System == <<"S", "y", "s", "t", "e", "m">>

----------------------------------------------------------------------------
(* Attachment mentions.                                                    *)

NameChars == UpperSet \cup LowerSet \cup DigitSet \cup {"_", "-"}

\* The position after the run of name characters that starts at i.
RECURSIVE NameRunEnd(_, _)
NameRunEnd(text, i) ==
    IF i <= Len(text) /\ text[i] \in NameChars THEN NameRunEnd(text, i + 1) ELSE i

\* Extension ext occurs at position at of text, whatever the case.
ExtAt(text, ext, at) ==
    /\ at + Len(ext) - 1 <= Len(text)
    /\ \A i \in 1..Len(ext) : LowerChar(text[at + i - 1]) = ext[i]

\* The alternation of attach_re, in its order.
AttachExts ==
    <<<<"j", "p", "g">>, <<"j", "p", "e", "g">>, <<"p", "n", "g">>, <<"g", "i", "f">>, <<"b", "m", "p">>, <<"w", "e", "b", "p">>, <<"h", "e", "i", "c">>, <<"o", "p", "u", "s">>, <<"m", "p", "4">>>>

\* The tuple given to fname.lower().endswith(...).
OcrSuffixes == {<<".", "j", "p", "g">>, <<".", "j", "p", "e", "g">>, <<".", "p", "n", "g">>, <<".", "g", "i", "f">>, <<".", "b", "m", "p">>, <<".", "w", "e", "b", "p">>, <<".", "h", "e", "i", "c">>}

\* attach_re matched at position i of text (re.IGNORECASE): the position
\* after the match, 0 if there is none.  [A-Za-z0-9_\-]+ is greedy and the
\* dot is outside its class, so the run of name characters is taken whole.
\* The first alternative among hits.
FirstAlternative(hits) == CHOOSE x \in hits : \A y \in hits : x <= y

ExtMatchEnd(text, dot, hits) ==
    IF hits = {} THEN 0 ELSE dot + 1 + Len(AttachExts[FirstAlternative(hits)])

MatchEndAtDot(text, i, dot) ==
    IF dot = i \/ dot > Len(text) \/ text[dot] # "." THEN 0
    ELSE ExtMatchEnd(text, dot,
                     {e \in 1..Len(AttachExts) : ExtAt(text, AttachExts[e], dot + 1)})

AttachMatchEnd(text, i) == MatchEndAtDot(text, i, NameRunEnd(text, i))

\* [m.group(1) for m in attach_re.finditer(text)], scanning from position i.
RECURSIVE attach_re_finditer(_, _)
RECURSIVE FinditerStep(_, _, _)
FinditerStep(text, i, end) ==
    IF end = 0 THEN attach_re_finditer(text, i + 1)
    ELSE <<SubSeq(text, i, end - 1)>> \o attach_re_finditer(text, end)

attach_re_finditer(text, i) ==
    IF i > Len(text) THEN <<>> ELSE FinditerStep(text, i, AttachMatchEnd(text, i))

\* OcrEligible without the os.path.isfile test.
OcrEligibleByName(fname, files) ==
    \E suf \in OcrSuffixes : EndsWith(Lower(fname), suf)

\* os.path.isfile(fpath) and fname.lower().endswith(('.jpg', ...))
OcrEligible(fname, files) ==
    /\ fname \in files
    /\ \E suf \in OcrSuffixes : EndsWith(Lower(fname), suf)

----------------------------------------------------------------------------
(* extract_details                                                         *)

\* re.sub(r'[^a-z]', '', key_raw.lower())
key_norm(key_raw) == SelectSeq(Lower(key_raw), LAMBDA c : c \in LowerSet)

\* value_raw removing one leading hyphen only.
value_raw_one_hyphen(value_part) ==
    IF Strip(value_part) # <<>> /\ Head(Strip(value_part)) = "-"
    THEN Strip(Tail(Strip(value_part)))
    ELSE Strip(value_part)

\* value_part.strip().lstrip('-').strip()
value_raw(value_part) == Strip(LStripHyphens(Strip(value_part)))

\* Canonical with the last two branches in the other order.
CanonicalReloanFirst(k) ==
    IF Contains(k, <<"l", "o", "a", "n">>) /\ Contains(k, <<"n", "u", "m">>) THEN "loan_num"
    ELSE IF Contains(k, <<"l", "o", "a", "n">>) /\ Contains(k, <<"n", "o">>) THEN "loan_num"
    ELSE IF Contains(k, <<"n", "a", "m", "e">>) THEN "name"
    ELSE IF Contains(k, <<"p", "h", "o", "n", "e">>) \/ Contains(k, <<"m", "o", "b", "i", "l", "e">>) THEN "phone_number"
    ELSE IF Contains(k, <<"l", "o", "a", "n">>) /\ Contains(k, <<"a", "m", "o", "u", "n", "t">>) THEN "loan_amount"
    ELSE IF Contains(k, <<"d", "i", "s", "b", "u", "r", "s", "a", "l">>) /\ Contains(k, <<"d", "a", "t", "e">>) THEN "disbursal_date"
    ELSE IF Contains(k, <<"r", "e", "p", "a", "y", "m", "e", "n", "t">>) /\ Contains(k, <<"a", "m", "t">>) THEN "repayment_amt"
    ELSE IF Contains(k, <<"r", "e", "p", "a", "y", "m", "e", "n", "t">>) /\ Contains(k, <<"a", "m", "o", "u", "n", "t">>) THEN "repayment_amt"
    ELSE IF Contains(k, <<"r", "e", "p", "a", "y", "m", "e", "n", "t">>) /\ Contains(k, <<"d", "a", "t", "e">>) THEN "repayment_date"
    ELSE IF Contains(k, <<"r", "e", "c", "e", "i", "v", "e">>) /\ Contains(k, <<"a", "m", "t">>) THEN "receive_amt"
    ELSE IF Contains(k, <<"r", "e", "c", "e", "i", "v", "e">>) /\ Contains(k, <<"a", "m", "o", "u", "n", "t">>) THEN "receive_amt"
    ELSE IF Contains(k, <<"r", "e", "c", "e", "i", "v", "e">>) /\ Contains(k, <<"d", "a", "t", "e">>) THEN "receive_date"
    ELSE IF Contains(k, <<"r", "e", "l", "o", "a", "n">>) THEN "reloan"
    ELSE IF Contains(k, <<"s", "t", "a", "t", "u", "s">>) THEN "status"
    ELSE ""

\* The if/elif chain of extract_details; "" is None.
Canonical(k) ==
    IF Contains(k, <<"l", "o", "a", "n">>) /\ Contains(k, <<"n", "u", "m">>) THEN "loan_num"
    ELSE IF Contains(k, <<"l", "o", "a", "n">>) /\ Contains(k, <<"n", "o">>) THEN "loan_num"
    ELSE IF Contains(k, <<"n", "a", "m", "e">>) THEN "name"
    ELSE IF Contains(k, <<"p", "h", "o", "n", "e">>) \/ Contains(k, <<"m", "o", "b", "i", "l", "e">>) THEN "phone_number"
    ELSE IF Contains(k, <<"l", "o", "a", "n">>) /\ Contains(k, <<"a", "m", "o", "u", "n", "t">>) THEN "loan_amount"
    ELSE IF Contains(k, <<"d", "i", "s", "b", "u", "r", "s", "a", "l">>) /\ Contains(k, <<"d", "a", "t", "e">>) THEN "disbursal_date"
    ELSE IF Contains(k, <<"r", "e", "p", "a", "y", "m", "e", "n", "t">>) /\ Contains(k, <<"a", "m", "t">>) THEN "repayment_amt"
    ELSE IF Contains(k, <<"r", "e", "p", "a", "y", "m", "e", "n", "t">>) /\ Contains(k, <<"a", "m", "o", "u", "n", "t">>) THEN "repayment_amt"
    ELSE IF Contains(k, <<"r", "e", "p", "a", "y", "m", "e", "n", "t">>) /\ Contains(k, <<"d", "a", "t", "e">>) THEN "repayment_date"
    ELSE IF Contains(k, <<"r", "e", "c", "e", "i", "v", "e">>) /\ Contains(k, <<"a", "m", "t">>) THEN "receive_amt"
    ELSE IF Contains(k, <<"r", "e", "c", "e", "i", "v", "e">>) /\ Contains(k, <<"a", "m", "o", "u", "n", "t">>) THEN "receive_amt"
    ELSE IF Contains(k, <<"r", "e", "c", "e", "i", "v", "e">>) /\ Contains(k, <<"d", "a", "t", "e">>) THEN "receive_date"
    ELSE IF Contains(k, <<"s", "t", "a", "t", "u", "s">>) THEN "status"
    ELSE IF Contains(k, <<"r", "e", "l", "o", "a", "n">>) THEN "reloan"
    ELSE ""

\* details[canonical] = value_raw
SetItem(details, key, value) == (key :> value) @@ details

\* One iteration of the loop over text.split('\n').
\* "if canonical: details[canonical] = value_raw"
Record(details, canonical, value_part) ==
    IF canonical = "" THEN details
    ELSE SetItem(details, canonical, value_raw(value_part))

\* What follows segment.split(':', 1).
KeyValue(details, key_raw, value_part) ==
    IF key_raw = <<>> THEN details              \* not key_raw
    ELSE Record(details, Canonical(key_norm(key_raw)), value_part)

SplitSegment(details, segment, c) ==
    IF c = 0 THEN details                       \* ':' not in segment
    ELSE KeyValue(details, Strip(SubSeq(segment, 1, c - 1)),
                  SubSeq(segment, c + 1, Len(segment)))

DetailStep(details, segment) == SplitSegment(details, segment, Find(segment, ":", 1))

RECURSIVE DetailLoop(_, _)
DetailLoop(details, segments) ==
    IF segments = <<>> THEN details
    ELSE DetailLoop(DetailStep(details, Head(segments)), Tail(segments))

\* The empty dict.
EmptyDict == [k \in {} |-> <<>>]

extract_details(text) == DetailLoop(EmptyDict, Split(text, "\n"))

----------------------------------------------------------------------------
(* parse_chat                                                              *)

\* f'collection_details_{key}'
DetailColumn(key) ==
    CASE key = "loan_num"       -> "collection_details_loan_num"
      [] key = "name"           -> "collection_details_name"
      [] key = "phone_number"   -> "collection_details_phone_number"
      [] key = "loan_amount"    -> "collection_details_loan_amount"
      [] key = "disbursal_date" -> "collection_details_disbursal_date"
      [] key = "repayment_amt"  -> "collection_details_repayment_amt"
      [] key = "repayment_date" -> "collection_details_repayment_date"
      [] key = "receive_amt"    -> "collection_details_receive_amt"
      [] key = "receive_date"   -> "collection_details_receive_date"
      [] key = "status"         -> "collection_details_status"
      [] key = "reloan"         -> "collection_details_reloan"

\* The row of one message, as the loop over messages builds it.
\* ', '.join(att['filename'] for att in atts)
att_names(atts) == Join(<<",", " ">>, [k \in 1..Len(atts) |-> atts[k].filename])

\* ' || '.join(att['ocr_text'] for att in atts if att['ocr_text'])
att_texts(atts) ==
    Join(<<" ", "|", "|", " ">>, [k \in 1..Len(atts) |-> atts[k].ocr_text])

\* "for key, val in details.items(): row[f'collection_details_{key}'] = val"
WithDetails(row, details) ==
    [col \in {DetailColumn(key) : key \in DOMAIN details} |->
        details[CHOOSE key \in DOMAIN details : DetailColumn(key) = col]] @@ row

\* The row of one message, as the loop over messages builds it.
Row(msg) ==
    WithDetails([date        |-> msg.date,
                 time        |-> msg.time,
                 sender      |-> msg.sender,
                 text        |-> msg.text,
                 attachments |-> att_names(msg.attachments),
                 ocr_text    |-> att_texts(SelectSeq(msg.attachments,
                                                     LAMBDA a : a.ocr_text # <<>>))],
                extract_details(msg.text))

\* The row written when the DataFrame is empty.
PlaceholderRow ==
    [date |-> <<>>, time |-> <<>>, sender |-> <<>>, text |-> <<>>,
     attachments |-> <<>>, ocr_text |-> <<>>]

\* The body of either "if m_regular:" / "if m_system:" branch: seal the open
\* message, convert the timestamp (which may raise), open the new message.
Opened(date_iso, time_iso, sender, message_text) ==
    /\ messages' = messages \o current_msg
    /\ IF date_iso = ValueError \/ time_iso = ValueError
       THEN /\ pc' = "ValueError"
            /\ UNCHANGED <<current_msg, idx>>
       ELSE /\ current_msg' = <<[date        |-> date_iso,
                                 time        |-> time_iso,
                                 sender      |-> sender,
                                 text        |-> message_text,
                                 attachments |-> <<>>]>>
            /\ idx' = idx + 1
            /\ pc' = pc

\* OpenMessage with the ValueError caught per line: the header is skipped
\* and the run goes on.
OpenMessageSkipsBad(date_str, time_str, sender, message_text) ==
    IF _convert_date(date_str) = ValueError \/ _convert_time(time_str) = ValueError
    THEN /\ idx' = idx + 1
         /\ UNCHANGED <<messages, current_msg, pc>>
    ELSE Opened(_convert_date(date_str), _convert_time(time_str), sender, message_text)

OpenMessage(date_str, time_str, sender, message_text) ==
    Opened(_convert_date(date_str), _convert_time(time_str), sender, message_text)

\* One iteration of "for raw_line in fh".
\* Dispatch with the system pattern tried first.
DispatchSystemFirst(line, m_regular, m_system) ==
    IF m_system.ok
    THEN OpenMessage(m_system.date, m_system.time, System, Strip(m_system.text))
    ELSE IF m_regular.ok
    THEN OpenMessage(m_regular.date, m_regular.time,
                     Strip(m_regular.sender), Strip(m_regular.text))
    ELSE /\ current_msg' =
                IF current_msg = <<>> THEN current_msg
                ELSE <<[current_msg[1] EXCEPT !.text = @ \o <<"\n">> \o line]>>
         /\ idx' = idx + 1
         /\ UNCHANGED <<messages, pc>>

\* The loop body once both patterns have been tried on line.
Dispatch(line, m_regular, m_system) ==
    IF m_regular.ok
    THEN OpenMessage(m_regular.date, m_regular.time,
                     Strip(m_regular.sender), Strip(m_regular.text))
    ELSE IF m_system.ok
    THEN OpenMessage(m_system.date, m_system.time, System, Strip(m_system.text))
    ELSE /\ current_msg' =
                IF current_msg = <<>> THEN current_msg
                ELSE <<[current_msg[1] EXCEPT !.text = @ \o <<"\n">> \o line]>>
         /\ idx' = idx + 1
         /\ UNCHANGED <<messages, pc>>

ReadLine ==
    /\ pc = "read"
    /\ idx <= Len(lines)
    /\ Dispatch(lines[idx], regular_re(lines[idx]), system_re(lines[idx]))
    /\ UNCHANGED <<lines, disk, ocr_log, df, json_file, excel_file, fn_in, fn_out>>

\* EndOfInput without the append after the loop: the message still open at
\* the end of the file is lost.
EndOfInputDropsOpen ==
    /\ pc = "read"
    /\ idx > Len(lines)
    /\ pc' = "attach"
    /\ idx' = 1
    /\ UNCHANGED <<lines, disk, messages, current_msg, ocr_log, df, json_file,
                   excel_file, fn_in, fn_out>>

\* The end of the loop: "if current_msg is not None: messages.append(current_msg)".
EndOfInput ==
    /\ pc = "read"
    /\ idx > Len(lines)
    /\ messages' = messages \o current_msg
    /\ pc' = "attach"
    /\ idx' = 1
    /\ UNCHANGED <<lines, disk, current_msg, ocr_log, df, json_file, excel_file,
                   fn_in, fn_out>>

\* What _perform_ocr may return: the recognised text, or "" when OCR is
\* unavailable or fails.
OcrTexts == {<<>>, <<"o", "k">>}

\* The mentions in found for which _perform_ocr is called.
OcrCalled(found) == {k \in 1..Len(found) : OcrEligible(found[k], disk)}

\* The list "attachments" of one message, given what each OCR call returned.
AttachmentList(found, ocrd, result) ==
    [k \in 1..Len(found) |->
        [filename |-> found[k],
         ocr_text |-> IF k \in ocrd THEN result[k] ELSE <<>>]]

\* The calls of _perform_ocr made for message i, in order.
OcrCalls(found, ocrd, i) ==
    SelectSeq([k \in 1..Len(found) |-> [msg |-> i, att |-> k, fname |-> found[k]]],
              LAMBDA c : c.att \in ocrd)

\* The body of the loop for message idx, whose mentions are found.
ResolveMessage(found, ocrd) ==
    /\ \E result \in [ocrd -> OcrTexts] :
          messages' =
              IF found # <<>>
              THEN [messages EXCEPT
                      ![idx].attachments = AttachmentList(found, ocrd, result)]
              ELSE messages
    /\ ocr_log' = ocr_log \o OcrCalls(found, ocrd, idx)

\* One iteration of the first "for msg in messages".
ResolveAttachments ==
    /\ pc = "attach"
    /\ idx <= Len(messages)
    /\ LET found == attach_re_finditer(messages[idx].text, 1)
       IN  ResolveMessage(found, OcrCalled(found))
    /\ idx' = idx + 1
    /\ UNCHANGED <<lines, disk, pc, current_msg, df, json_file, excel_file,
                   fn_in, fn_out>>

\* The second "for msg in messages" and "df = pd.DataFrame(rows)".
BuildRows ==
    /\ pc = "attach"
    /\ idx > Len(messages)
    /\ df' = [i \in 1..Len(messages) |-> Row(messages[i])]
    /\ pc' = "json"
    /\ UNCHANGED <<lines, disk, idx, messages, current_msg, ocr_log, json_file,
                   excel_file, fn_in, fn_out>>

\* open(json_path, 'w') and json.dump succeed.
WriteJson ==
    /\ pc = "json"
    /\ json_file' = <<[messages |-> messages]>>
    /\ pc' = "excel"
    /\ UNCHANGED <<lines, disk, idx, messages, current_msg, ocr_log, df,
                   excel_file, fn_in, fn_out>>

\* open(json_path, 'w') raises OSError.
WriteJsonFails ==
    /\ pc = "json"
    /\ pc' = "OSError"
    /\ UNCHANGED <<lines, disk, idx, messages, current_msg, ocr_log, df,
                   json_file, excel_file, fn_in, fn_out>>

\* WriteExcel without the "if df.empty" replacement.
WriteExcelAsIs ==
    /\ pc = "excel"
    /\ excel_file' = <<df>>
    /\ pc' = "done"
    /\ UNCHANGED <<lines, disk, idx, messages, current_msg, ocr_log, df, json_file,
                   fn_in, fn_out>>

\* "if df.empty: df = ..." and df.to_excel succeed; parse_chat returns.
WriteExcel ==
    /\ pc = "excel"
    /\ df' = IF df = <<>> THEN <<PlaceholderRow>> ELSE df
    /\ excel_file' = <<df'>>
    /\ pc' = "done"
    /\ UNCHANGED <<lines, disk, idx, messages, current_msg, ocr_log, json_file,
                   fn_in, fn_out>>

\* df.to_excel raises (no Excel engine, an unwritable path, a character the
\* engine rejects).
WriteExcelFails ==
    /\ pc = "excel"
    /\ df' = IF df = <<>> THEN <<PlaceholderRow>> ELSE df
    /\ pc' = "OSError"
    /\ UNCHANGED <<lines, disk, idx, messages, current_msg, ocr_log, json_file,
                   excel_file, fn_in, fn_out>>

----------------------------------------------------------------------------
(* The chats, directories and helper arguments that are explored.          *)

MaxLines == 3

MaxDetailLines == 2

MaxField == 32

\* Lines of an exported chat: authored and system headers, headers whose
\* timestamp does not parse, and lines that are no header.
LinePool ==
    { <<"9", "/", "8", "/", "2", "5", ",", " ", "5", ":", "5", "8", " ", "P", "M", " ", "-", " ", "J", "o", " ", "D", "o", ":", " ", "H", "i">>,
      <<"1", "3", "/", "8", "/", "2", "5", ",", " ", "1", "2", ":", "0", "5">> \o <<"NNBSP">> \o <<"a", "m", " ", "-", " ", "J", "a", "n", "e", ":", " ", "I", "M", "G", "-", "1", ".", "j", "p", "g", " ", "b", ".", "m", "p", "4", " ", "I", "M", "G", "-", "1", ".", "j", "p", "g">>,
      <<"9", "/", "8", "/", "2", "5", ",", " ", "5", ":", "5", "9", " ", "P", "M", " ", "-", " ", "A", "l", " ", "j", "o", "i", "n", "e", "d">>,
      <<"2", "/", "3", "0", "/", "2", "5", ",", " ", "5", ":", "5", "8", " ", "P", "M", " ", "-", " ", "A", "l", ":", " ", "x">>,
      <<"9", "/", "8", "/", "2", "5", ",", " ", "5", ":", "5", "8", "P", "M", " ", "-", " ", "l", "e", "f", "t">>,
      <<>>,
      <<"S", "t", "a", "t", "u", "s", ":", " ", "-", "o", "p", "e", "n", " ", "c", ".", "P", "N", "G", " ">>,
      <<"9", "/", "8", "/", "2", "5", ",", " ", "5", ":", "5", "8", " ", "P", "M", " ", "-", " ", " ", ":", " ", "n", "o", "t", "e">>,
      <<"9", "/", "8", "/", "2", "5", ",", " ", "5", ":", "5", "8", " ", "P", "M", " ", "-", " ", ":", " ", "n", "o", "t", "e">> }

InputChats == UNION {[1..n -> LinePool] : n \in 0..MaxLines}

\* Contents of the extraction directory: an image and a video that are
\* mentioned; c.PNG, mentioned too, is not there.
Disks == { {<<"I", "M", "G", "-", "1", ".", "j", "p", "g">>, <<"b", ".", "m", "p", "4">>} }

Idle == /\ lines = <<>> /\ disk = {} /\ idx = 1 /\ messages = <<>>
        /\ current_msg = <<>> /\ ocr_log = <<>> /\ df = <<>>
        /\ json_file = <<>> /\ excel_file = <<>>

\* parse_chat is entered with the chat file located and nothing written.
Init ==
    /\ lines \in InputChats
    /\ disk \in Disks
    /\ pc = "read"
    /\ idx = 1
    /\ messages = <<>>
    /\ current_msg = <<>>
    /\ ocr_log = <<>>
    /\ df = <<>>
    /\ json_file = <<>>
    /\ excel_file = <<>>
    /\ fn_in = <<>>
    /\ fn_out = <<>>

Next ==
    \/ ReadLine
    \/ EndOfInput
    \/ ResolveAttachments
    \/ BuildRows
    \/ WriteJson
    \/ WriteJsonFails
    \/ WriteExcel
    \/ WriteExcelFails

Spec == Init /\ [][Next]_vars

----------------------------------------------------------------------------
(* _convert_date on its own, over the date tokens the line patterns admit: *)
(* \d{1,2}/\d{1,2}/\d{2}.                                                  *)

\* A field of one or two digits.
Field(n, padded) == IF padded \/ n >= 10 THEN Pad2(n) ELSE <<Digits[n + 1]>>

\* Two-digit years on both sides of every boundary of interest.
YearTokens == {0, 4, 24, 25, 68, 69, 70, 99}

DateTokens ==
    { Field(a, pa) \o <<"/">> \o Field(b, pb) \o <<"/">> \o Pad2(yy) :
        a \in 0..MaxField, b \in 0..MaxField, pa \in BOOLEAN, pb \in BOOLEAN,
        yy \in YearTokens }

InitDate == Idle /\ pc = "call" /\ fn_in \in DateTokens /\ fn_out = <<>>

ConvertDate ==
    /\ pc = "call"
    /\ fn_out' = _convert_date(fn_in)
    /\ pc' = "return"
    /\ UNCHANGED <<lines, disk, idx, messages, current_msg, ocr_log, df,
                   json_file, excel_file, fn_in>>

NextDate == ConvertDate

SpecDate == InitDate /\ [][NextDate]_vars

----------------------------------------------------------------------------
(* extract_details on its own.                                             *)

KeyWords ==
    { <<"L", "o", "a", "n">>, <<"N", "u", "m">>, <<"N", "o", ".">>, <<"N", "a", "m", "e">>, <<"P", "h", "o", "n", "e">>, <<"M", "o", "b", "i", "l", "e">>, <<"A", "m", "o", "u", "n", "t">>,
      <<"A", "m", "t">>, <<"D", "i", "s", "b", "u", "r", "s", "a", "l">>, <<"D", "a", "t", "e">>, <<"R", "e", "p", "a", "y", "m", "e", "n", "t">>, <<"R", "e", "c", "e", "i", "v", "e">>, <<"S", "t", "a", "t", "u", "s">>,
      <<"R", "e", "l", "o", "a", "n">>, <<"R", "e", "f">>, <<"h", "t", "t", "p">> }

Keys == KeyWords \cup {a \o <<" ">> \o b : a \in KeyWords, b \in KeyWords}

ValueParts == { <<" ", "1", "2", "3">>, <<" ", "-", "V", "a", "l", "u", "e">>, <<" ", "-", "-", "V", "a", "l", "u", "e">>, <<" ", "-", " ", "-", "v", " ">>, <<"-">> }

DetailLinePool ==
    { <<"L", "o", "a", "n", " ", "N", "o", ":", " ", "1", "2", "3">>, <<"N", "a", "m", "e", ":", " ", "A", "s", "h", "a">>, <<"h", "t", "t", "p", ":", "/", "/", "x", ".", "c", "o", "m", "/", "a", ":", "b">>, <<"S", "t", "a", "t", "u", "s", ":", " ", "o", "p", "e", "n">>,
      <<"S", "t", "a", "t", "u", "s", ":", " ", "c", "l", "o", "s", "e", "d">>, <<"n", "o", " ", "c", "o", "l", "o", "n", " ", "h", "e", "r", "e">>, <<" ", ":", " ", "5">>, <<"R", "e", "-", "l", "o", "a", "n", " ", "s", "t", "a", "t", "u", "s", ":", " ", "-", "-", "y", "e", "s">>,
      <<"R", "e", "l", "o", "a", "n", ":", " ", "-", " ", "-", "n", "o", " ">> }

DetailTexts ==
    {k \o <<":">> \o v : k \in Keys, v \in ValueParts}
    \cup {Join(<<"\n">>, ls) : ls \in UNION {[1..n -> DetailLinePool] : n \in 0..MaxDetailLines}}
    \cup {Join(<<"\n">>, <<<<"L", "o", "a", "n", " ", "N", "o", ":", " ", "1", "2", "3">>, <<"N", "a", "m", "e", ":", " ", "A", "s", "h", "a">>, <<"h", "t", "t", "p", ":", "/", "/", "x", ".", "c", "o", "m", "/", "a", ":", "b">>>>)}

InitDetails == Idle /\ pc = "call" /\ fn_in \in DetailTexts /\ fn_out = <<>>

ExtractDetails ==
    /\ pc = "call"
    /\ fn_out' = extract_details(fn_in)
    /\ pc' = "return"
    /\ UNCHANGED <<lines, disk, idx, messages, current_msg, ocr_log, df,
                   json_file, excel_file, fn_in>>

NextDetails == ExtractDetails

SpecDetails == InitDetails /\ [][NextDetails]_vars

----------------------------------------------------------------------------
(* Properties of the segmentation.                                         *)

\* The lines consumed so far, and the messages opened from them.
LinesRead ==
    IF pc \in {"read", "ValueError"} THEN SubSeq(lines, 1, idx - 1) ELSE lines

Emitted == IF pc = "read" THEN messages \o current_msg ELSE messages

\* A line that matches the authored or the system grammar.
IsHeader(line) == system_re(line).ok \/ regular_re(line).ok

\* The indices of the header lines of ls, in increasing order.
HeaderIdx(ls) == SelectSeq([i \in 1..Len(ls) |-> i], LAMBDA i : IsHeader(ls[i]))

\* The text a header line carries.
TextOfMatch(line, m_regular) ==
    IF m_regular.ok THEN Strip(m_regular.text) ELSE Strip(system_re(line).text)

HeaderText(line) == TextOfMatch(line, regular_re(line))

\* The text of the message that header line h opens, where next is the next
\* header line or the end of input: the header's text and every line before
\* next, joined by "\n".
SegmentText(ls, h, next) ==
    Join(<<"\n">>, <<HeaderText(ls[h])>> \o SubSeq(ls, h + 1, next - 1))

\* C1: as long as every header timestamp parses, the messages are, in order,
\* one per header line of the lines read; each text is its header's text
\* followed by the non-header lines up to the next header, each after a "\n";
\* lines before the first header appear nowhere; and every message but the
\* open one is sealed, the last one at end of input.
\* The messages msgs are the segments of ls, whose header lines are hs.
SegmentsAre(msgs, ls, hs) ==
    /\ Len(msgs) = Len(hs)
    /\ \A k \in 1..Len(hs) :
          msgs[k].text =
              SegmentText(ls, hs[k], IF k < Len(hs) THEN hs[k + 1] ELSE Len(ls) + 1)
    /\ pc = "read" => Len(current_msg) = (IF hs = <<>> THEN 0 ELSE 1)

C1_Segmentation ==
    pc \notin {"call", "return", "ValueError"} =>
        SegmentsAre(Emitted, LinesRead, HeaderIdx(LinesRead))

\* A finished run over three lines that yields two messages, the first with
\* a continuation line.
C1_Witness ==
    /\ pc = "done"
    /\ Len(lines) = 3
    /\ Len(messages) = 2
    /\ Find(messages[1].text, "\n", 1) # 0

\* C2: the text of every emitted message equals itself trimmed.
C2_TextTrimmed ==
    \A k \in 1..Len(messages) : messages[k].text = Strip(messages[k].text)

\* A header line whose date parses in neither order or whose time fails the
\* 12-hour parse.
BadIn(h) ==
    /\ h.ok
    /\ \/ (~strptime_date(h.date, TRUE).ok /\ ~strptime_date(h.date, FALSE).ok)
       \/ ~strptime_time(Upper(Strip(ReplaceNNBSP(h.time)))).ok

BadTimestamp(line) == BadIn(HeaderPrefix(line))

BadIdx == {i \in 1..Len(lines) : BadTimestamp(lines[i])}

\* The run does not get past the first line of bad, if there is one, and
\* has produced nothing.
StopsAt(bad) ==
    bad # {} =>
        /\ pc \in {"read", "ValueError"}
        /\ \A i \in bad : idx <= i
        /\ ocr_log = <<>>
        /\ df = <<>>
        /\ json_file = <<>>
        /\ excel_file = <<>>
        /\ \A k \in 1..Len(messages) : messages[k].attachments = <<>>

\* C4: when some header line carries a timestamp that does not parse, the run
\* never gets past that line: it is reading or has raised ValueError there,
\* it never returns, no attachment is resolved, no OCR is called, no row is
\* built, and neither output file is written.
C4_BadTimestampAborts == pc \notin {"call", "return"} => StopsAt(BadIdx)

\* The run has raised at the third line, after two valid messages.
C4_Witness ==
    /\ pc = "ValueError"
    /\ idx = 3
    /\ Len(messages) = 2
    /\ BadTimestamp(lines[3])

\* C5: once the run has ended (returned or raised), the JSON file and the
\* Excel file have both been produced or neither has.
C5_NoPartialOutput ==
    pc \in {"done", "ValueError", "OSError"} =>
        ((json_file # <<>>) <=> (excel_file # <<>>))

\* What follows '<date>, <time> - ' in a header line.
Remainder(line) == SubSeq(line, HeaderPrefix(line).dash + 1, Len(line))

\* The sender and the text the claim gives a header line: authored when the
\* remainder has a colon with at least one character before it.
ExpectedAt(r, c) ==
    IF c >= 2
    THEN [sender |-> Strip(SubSeq(r, 1, c - 1)), text |-> Strip(SubSeq(r, c + 1, Len(r)))]
    ELSE [sender |-> System, text |-> Strip(r)]

ExpectedIn(r) == ExpectedAt(r, Find(r, ":", 1))

Expected(line) == ExpectedIn(Remainder(line))

\* The first line of a text.
FirstLineUpTo(text, nl) == IF nl = 0 THEN text ELSE SubSeq(text, 1, nl - 1)

FirstLine(text) == FirstLineUpTo(text, Find(text, "\n", 1))

\* Message msg has the sender and the first line exp.
Carries(msg, exp) == msg.sender = exp.sender /\ FirstLine(msg.text) = exp.text

\* C10: exactly one message is opened per header line; it is authored, with
\* the sender up to the first colon and the text after it, whenever the
\* remainder has a colon preceded by a character, and is a System message
\* carrying the whole remainder only otherwise.
\* The messages msgs are classified as the header lines hs of ls demand.
ClassifiedAs(msgs, ls, hs) ==
    /\ Len(msgs) = Len(hs)
    /\ \A k \in 1..Len(hs) : Carries(msgs[k], Expected(ls[hs[k]]))

C10_AuthoredBeforeSystem ==
    pc \notin {"call", "return"} =>
        ClassifiedAs(Emitted, LinesRead, HeaderIdx(LinesRead))

\* A finished run with a System message, a message by Jo Do, and a message
\* whose remainder starts with a colon.
C10_Witness ==
    /\ pc = "done"
    /\ \E i, j \in 1..Len(messages) :
          /\ messages[i].sender = System
          /\ messages[i].text = <<":", " ", "n", "o", "t", "e">>
          /\ messages[j].sender = <<"J", "o", " ", "D", "o">>
          /\ messages[j].text = <<"H", "i">>

----------------------------------------------------------------------------
(* Properties of the attachments and of the two outputs.                   *)

\* The image types of the claim, and the extension of a file name.
ImageTypes == {<<"j", "p", "g">>, <<"j", "p", "e", "g">>, <<"p", "n", "g">>, <<"g", "i", "f">>, <<"b", "m", "p">>, <<"w", "e", "b", "p">>, <<"h", "e", "i", "c">>}

LastDot(fname) ==
    CHOOSE i \in 1..Len(fname) :
        fname[i] = "." /\ \A j \in (i + 1)..Len(fname) : fname[j] # "."

ExtensionOf(fname) == Lower(SubSeq(fname, LastDot(fname) + 1, Len(fname)))

\* The number of OCR calls made for entry k of message i.
CallsFor(i, k) ==
    Cardinality({n \in 1..Len(ocr_log) : ocr_log[n].msg = i /\ ocr_log[n].att = k})

\* Message i has been through the attachment loop.
Resolved(i) == pc \in {"json", "excel", "done", "OSError"} \/ (pc = "attach" /\ i < idx)

\* The entries of message i are its mentions, in order, each OCR'd at most
\* once and only if it is an image that is on disk, and empty otherwise.
EntriesOf(i, mentions) ==
    /\ Len(messages[i].attachments) = Len(mentions)
    /\ \A k \in 1..Len(mentions) :
          /\ messages[i].attachments[k].filename = mentions[k]
          /\ CallsFor(i, k) <= 1
          /\ CallsFor(i, k) = 1 =>
                (ExtensionOf(mentions[k]) \in ImageTypes /\ mentions[k] \in disk)
          /\ ~(ExtensionOf(mentions[k]) \in ImageTypes /\ mentions[k] \in disk) =>
                (CallsFor(i, k) = 0 /\ messages[i].attachments[k].ocr_text = <<>>)

\* C8: every mention in a message's text is an attachment entry of its own,
\* in order of appearance; OCR is called at most once for an entry, and only
\* for an image type whose file is in the directory; every other entry keeps
\* its filename and has an empty ocr_text; and OCR is called for nothing else.
C8_OcrOnlyForPresentImages ==
    pc \notin {"call", "return"} =>
        /\ \A i \in 1..Len(messages) :
              IF Resolved(i)
              THEN EntriesOf(i, attach_re_finditer(messages[i].text, 1))
              ELSE messages[i].attachments = <<>>
        /\ \A n \in 1..Len(ocr_log) :
              /\ ocr_log[n].msg \in 1..Len(messages)
              /\ Resolved(ocr_log[n].msg)
              /\ ocr_log[n].att \in 1..Len(messages[ocr_log[n].msg].attachments)

\* A message mentions the same image twice and the two entries carry
\* different OCR texts, its video on disk has none, and another message
\* mentions an image that is not on disk.
C8_Witness ==
    /\ pc = "done"
    /\ \E i \in 1..Len(messages) :
          /\ Len(messages[i].attachments) = 3
          /\ messages[i].attachments[1].filename = messages[i].attachments[3].filename
          /\ messages[i].attachments[1].ocr_text = <<"o", "k">>
          /\ messages[i].attachments[3].ocr_text = <<>>
          /\ messages[i].attachments[2].filename = <<"b", ".", "m", "p", "4">>
          /\ <<"b", ".", "m", "p", "4">> \in disk
          /\ messages[i].attachments[2].ocr_text = <<>>
    /\ \E i \in 1..Len(messages) :
          /\ Len(messages[i].attachments) = 1
          /\ messages[i].attachments[1].filename = <<"c", ".", "P", "N", "G">>
          /\ <<"c", ".", "P", "N", "G">> \notin disk

SixColumns == {"date", "time", "sender", "text", "attachments", "ocr_text"}

\* Row row carries message msg.
RowCarries(row, msg) ==
    /\ row.date = msg.date
    /\ row.time = msg.time
    /\ row.sender = msg.sender
    /\ row.text = msg.text
    /\ row.attachments =
          Join(<<",", " ">>, [k \in 1..Len(msg.attachments) |-> msg.attachments[k].filename])

TableMatches(table, msgs) ==
    IF msgs = <<>>
    THEN /\ Len(table) = 1
         /\ DOMAIN table[1] = SixColumns
         /\ \A col \in SixColumns : table[1][col] = <<>>
    ELSE /\ Len(table) = Len(msgs)
         /\ \A i \in 1..Len(msgs) : RowCarries(table[i], msgs[i])

\* C9: after a successful run the Excel table has one row per message of the
\* JSON document, row i carrying message i, unless there is no message, and
\* then it has exactly one row whose six columns are empty strings.
C9_RowsMatchMessages ==
    pc = "done" => TableMatches(excel_file[1], json_file[1].messages)

\* A successful run over a chat that has lines but no header line.
C9_Witness ==
    /\ pc = "done"
    /\ lines # <<>>
    /\ json_file[1].messages = <<>>
    /\ Len(excel_file[1]) = 1

----------------------------------------------------------------------------
(* Properties of _convert_date.                                            *)

\* The month, day and two-digit year of an M/D/YY token.
MDY(parts) == [m |-> IntOf(parts[1]), d |-> IntOf(parts[2]), yy |-> IntOf(parts[3])]

\* A token that names a day of the calendar, month first.
ValidMDY(t) == t.m \in 1..12 /\ t.d >= 1 /\ t.d <= DaysInMonth(2000 + t.yy, t.m)

YearIs2000PlusYY(t, out) ==
    ValidMDY(t) => out = Pad4(2000 + t.yy) \o <<"-">> \o Pad2(t.m) \o <<"-">> \o Pad2(t.d)

\* C3: for every valid M/D/YY token, _convert_date returns the date of the
\* year 2000+YY, with the month and the day zero-padded.
C3_YearIs2000PlusYY ==
    pc = "return" => YearIs2000PlusYY(MDY(Split(fn_in, "/")), fn_out)

----------------------------------------------------------------------------
(* Properties of extract_details.                                          *)

\* The rule table of the detail extractor, in its order: a rule holds when
\* the key contains every substring of one of its alternatives.
RuleTable ==
    << [any |-> {{<<"l", "o", "a", "n">>, <<"n", "u", "m">>}},         field |-> "loan_num"],
       [any |-> {{<<"l", "o", "a", "n">>, <<"n", "o">>}},          field |-> "loan_num"],
       [any |-> {{<<"n", "a", "m", "e">>}},                  field |-> "name"],
       [any |-> {{<<"p", "h", "o", "n", "e">>}, {<<"m", "o", "b", "i", "l", "e">>}},   field |-> "phone_number"],
       [any |-> {{<<"l", "o", "a", "n">>, <<"a", "m", "o", "u", "n", "t">>}},      field |-> "loan_amount"],
       [any |-> {{<<"d", "i", "s", "b", "u", "r", "s", "a", "l">>, <<"d", "a", "t", "e">>}},   field |-> "disbursal_date"],
       [any |-> {{<<"r", "e", "p", "a", "y", "m", "e", "n", "t">>, <<"a", "m", "t">>}},    field |-> "repayment_amt"],
       [any |-> {{<<"r", "e", "p", "a", "y", "m", "e", "n", "t">>, <<"a", "m", "o", "u", "n", "t">>}}, field |-> "repayment_amt"],
       [any |-> {{<<"r", "e", "p", "a", "y", "m", "e", "n", "t">>, <<"d", "a", "t", "e">>}},   field |-> "repayment_date"],
       [any |-> {{<<"r", "e", "c", "e", "i", "v", "e">>, <<"a", "m", "t">>}},      field |-> "receive_amt"],
       [any |-> {{<<"r", "e", "c", "e", "i", "v", "e">>, <<"a", "m", "o", "u", "n", "t">>}},   field |-> "receive_amt"],
       [any |-> {{<<"r", "e", "c", "e", "i", "v", "e">>, <<"d", "a", "t", "e">>}},     field |-> "receive_date"],
       [any |-> {{<<"s", "t", "a", "t", "u", "s">>}},                field |-> "status"],
       [any |-> {{<<"r", "e", "l", "o", "a", "n">>}},                field |-> "reloan"] >>

CanonicalFields == {RuleTable[i].field : i \in 1..Len(RuleTable)}

RuleHolds(rule, k) == \E all \in rule.any : \A sub \in all : Contains(k, sub)

FirstRule(hits) ==
    IF hits = {} THEN "" ELSE RuleTable[CHOOSE i \in hits : \A j \in hits : i <= j].field

\* The field of a normalised key: that of the first rule that holds.
FieldOfKey(k) == FirstRule({i \in 1..Len(RuleTable) : RuleHolds(RuleTable[i], k)})

\* The field of a line whose first colon is at c: "" if it has no colon or
\* its key, lower-cased and without its non a-z characters, fits no rule.
FieldAtColon(line, c) ==
    IF c = 0 THEN ""
    ELSE FieldOfKey(SelectSeq(Lower(SubSeq(line, 1, c - 1)), LAMBDA x : x \in LowerSet))

FieldOfLine(line) == FieldAtColon(line, Find(line, ":", 1))

\* What follows the first colon of a line.
AfterColon(line) == SubSeq(line, Find(line, ":", 1) + 1, Len(line))

\* The last line among ls whose field is f.
LastWith(fields, f) ==
    CHOOSE i \in 1..Len(fields) :
        fields[i] = f /\ \A j \in (i + 1)..Len(fields) : fields[j] # f

\* The reference result over the lines ls, whose fields are fields.
Reference(ls, fields) ==
    [f \in {fields[i] : i \in 1..Len(fields)} \ {""} |->
        value_raw(AfterColon(ls[LastWith(fields, f)]))]

LinesOf(text) == Split(text, "\n")

FieldsOf(ls) == [i \in 1..Len(ls) |-> FieldOfLine(ls[i])]

\* C6: the result of the detail extraction is the reference result: each
\* line with a colon is classified by the first rule of the table that its
\* normalised key fits, a line that fits no rule contributes nothing, the
\* last line of a field gives its value, and every key is a canonical field.
C6_DetailsMatchReference ==
    pc = "return" =>
        /\ fn_out = Reference(LinesOf(fn_in), FieldsOf(LinesOf(fn_in)))
        /\ DOMAIN fn_out \subseteq CanonicalFields

\* The three-line example: the URL line is discarded.
C6_Witness ==
    /\ pc = "return"
    /\ fn_in = Join(<<"\n">>, <<<<"L", "o", "a", "n", " ", "N", "o", ":", " ", "1", "2", "3">>, <<"N", "a", "m", "e", ":", " ", "A", "s", "h", "a">>, <<"h", "t", "t", "p", ":", "/", "/", "x", ".", "c", "o", "m", "/", "a", ":", "b">>>>)
    /\ fn_out = ("loan_num" :> <<"1", "2", "3">>) @@ ("name" :> <<"A", "s", "h", "a">>)

IsHyphen(c) == c = "-"

\* The first position at or after from whose character does not satisfy P.
FirstNot(s, from, P(_)) ==
    CHOOSE i \in from..(Len(s) + 1) :
        /\ (i = Len(s) + 1 \/ ~P(s[i]))
        /\ \A j \in from..(i - 1) : P(s[j])

\* The last position whose character is not a blank; 0 if there is none.
LastNonSpace(s) ==
    IF \A i \in 1..Len(s) : IsSpace(s[i]) THEN 0
    ELSE CHOOSE i \in 1..Len(s) :
            ~IsSpace(s[i]) /\ \A j \in (i + 1)..Len(s) : IsSpace(s[j])

Trimmed(s) == SubSeq(s, FirstNot(s, 1, IsSpace), LastNonSpace(s))

From(t, i) == SubSeq(t, i, Len(t))

\* t without its leading hyphens and the blanks that follow them.
WithoutHyphens(t) == From(t, FirstNot(t, FirstNot(t, 1, IsHyphen), IsSpace))

\* t without one leading hyphen, if it has one, and the blanks that follow it.
WithoutOneHyphen(t) ==
    IF t # <<>> /\ t[1] = "-" THEN From(t, FirstNot(t, 2, IsSpace)) ELSE t

\* C7 as amended: for every recognised detail line the stored value is the
\* text after the first colon, trimmed, without any of its leading hyphens
\* and without the blanks that follow them.
C7_AllLeadingHyphensStripped ==
    pc = "return" =>
        \A f \in DOMAIN fn_out :
            fn_out[f] =
                WithoutHyphens(Trimmed(AfterColon(
                    LinesOf(fn_in)[LastWith(FieldsOf(LinesOf(fn_in)), f)])))

\* C7 as stated: exactly one leading hyphen (and the blanks after it) is
\* removed; further leading hyphens stay in the value.
C7_OneLeadingHyphenStripped ==
    pc = "return" =>
        \A f \in DOMAIN fn_out :
            fn_out[f] =
                WithoutOneHyphen(Trimmed(AfterColon(
                    LinesOf(fn_in)[LastWith(FieldsOf(LinesOf(fn_in)), f)])))

\* A value written with two leading hyphens is stored without both.
C7_Witness ==
    /\ pc = "return"
    /\ fn_in = <<"S", "t", "a", "t", "u", "s", ":", " ", "-", "-", "V", "a", "l", "u", "e">>
    /\ fn_out = ("status" :> <<"V", "a", "l", "u", "e">>)

====
